---- MODULE Spec2Model ----
(***************************************************************************)
(* Model of src/path/paths.rs of lsr: the Path descriptor (size and time   *)
(* formatting) and the Paths listing (padding, hidden-entry filtering,     *)
(* printing, argument setup).                                              *)
(*                                                                         *)
(* Representation.                                                         *)
(*  - A Rust String is a sequence of characters, each a one-character      *)
(*    TLA+ string; Utf8Len gives the number of bytes the character takes   *)
(*    in UTF-8, so that String::len (a byte count) and the number of       *)
(*    characters are different things, as they are in Rust.                *)
(*  - A u64 / u128 is a sequence of base-1000 digits, least significant    *)
(*    first, without leading zero digits (<<>> is 0), because the values   *)
(*    the code handles (10^12, milliseconds since the epoch) exceed the    *)
(*    32-bit integers of TLC.  An i64 is a record [neg, mag].              *)
(***************************************************************************)
EXTENDS Integers, Sequences, FiniteSets

VARIABLES paths, all, long, tree, status, out, built, orig, pre, post, pads, lastArgs, call

vars == <<paths, all, long, tree, status, out, built, orig, pre, post, pads, lastArgs, call>>

listing == <<paths, all, long, tree, status, out, built, orig, pre, post, pads, lastArgs>>

(***************************************************************************)
(* Unsigned multi-digit arithmetic (base 1000, little endian).  The        *)
(* recursive helpers are functions, so that their arguments are values.    *)
(***************************************************************************)
Big == Seq(Nat)

BigNorm[a \in Big] ==
    IF a = <<>> THEN <<>>
    ELSE IF a[Len(a)] = 0 THEN BigNorm[SubSeq(a, 1, Len(a) - 1)]
    ELSE a

BigFromInt[n \in Nat] ==
    IF n = 0 THEN <<>> ELSE <<n % 1000>> \o BigFromInt[n \div 1000]

BigToInt[a \in Big] ==
    IF a = <<>> THEN 0 ELSE a[1] + 1000 * BigToInt[Tail(a)]

BigCmpFrom[a \in Big, b \in Big, i \in Nat] ==
    IF i = 0 THEN 0
    ELSE IF a[i] < b[i] THEN -1
    ELSE IF a[i] > b[i] THEN 1
    ELSE BigCmpFrom[a, b, i - 1]

BigCmp[a \in Big, b \in Big] ==
    IF Len(a) < Len(b) THEN -1
    ELSE IF Len(a) > Len(b) THEN 1
    ELSE BigCmpFrom[a, b, Len(a)]

BigLt(a, b) == BigCmp[a, b] < 0

BigLe(a, b) == BigCmp[a, b] <= 0

BigMulCarry[m \in Nat, a \in Big, carry \in Nat] ==
    IF a = <<>> THEN BigFromInt[carry]
    ELSE <<(m * a[1] + carry) % 1000>>
         \o BigMulCarry[m, Tail(a), (m * a[1] + carry) \div 1000]

\* m * a for a small factor m (0 <= m <= 1024).
BigMulSmall(m, a) == BigNorm[BigMulCarry[m, a, 0]]

BigAddCarry[a \in Big, b \in Big, carry \in Nat] ==
    IF a = <<>> /\ b = <<>> THEN BigFromInt[carry]
    ELSE LET x == IF a = <<>> THEN 0 ELSE a[1]
             y == IF b = <<>> THEN 0 ELSE b[1]
         IN  <<(x + y + carry) % 1000>>
             \o BigAddCarry[IF a = <<>> THEN <<>> ELSE Tail(a),
                            IF b = <<>> THEN <<>> ELSE Tail(b),
                            (x + y + carry) \div 1000]

BigAdd(a, b) == BigNorm[BigAddCarry[a, b, 0]]

BigSubBorrow[a \in Big, b \in Big, borrow \in Nat] ==
    IF a = <<>> THEN <<>>
    ELSE LET y == IF b = <<>> THEN 0 ELSE b[1]
         IN  <<(a[1] - y - borrow) % 1000>>
             \o BigSubBorrow[Tail(a),
                             IF b = <<>> THEN <<>> ELSE Tail(b),
                             IF a[1] - y - borrow < 0 THEN 1 ELSE 0]

\* a - b, for a >= b.
BigSub(a, b) == BigNorm[BigSubBorrow[a, b, 0]]

\* The digit q (0..999) with q * b <= r < (q + 1) * b, for r < 1000 * b:
\* one step of long division, found by bisection.
BigDigit[r \in Big, b \in Big, lo \in Nat, hi \in Nat] ==
    IF lo = hi THEN lo
    ELSE IF BigLe(BigMulSmall((lo + hi + 1) \div 2, b), r)
         THEN BigDigit[r, b, (lo + hi + 1) \div 2, hi]
         ELSE BigDigit[r, b, lo, ((lo + hi + 1) \div 2) - 1]

\* Long division of a by b (b > 0), taking the digits of a from the most
\* significant (position i) down; r is the running remainder with the digit
\* at i brought down, quot the digits of the quotient found so far.
\* The result is <<quotient, remainder>>.
BigDivStep[a \in Big, b \in Big, i \in Nat, r \in Big, q \in Nat, quot \in Big] ==
    IF i = 1 THEN <<BigNorm[<<q>> \o quot], BigSub(r, BigMulSmall(q, b))>>
    ELSE BigDivStep[a, b, i - 1,
                    BigNorm[<<a[i - 1]>> \o BigSub(r, BigMulSmall(q, b))],
                    BigDigit[BigNorm[<<a[i - 1]>> \o BigSub(r, BigMulSmall(q, b))], b, 0, 999],
                    <<q>> \o quot]

BigDivMod[a \in Big, b \in Big] ==
    IF a = <<>> THEN <<<<>>, <<>>>>
    ELSE BigDivStep[a, b, Len(a), BigNorm[<<a[Len(a)]>>],
                    BigDigit[BigNorm[<<a[Len(a)]>>], b, 0, 999], <<>>]

BigDiv(a, b) == BigDivMod[a, b][1]

BigMod(a, b) == BigDivMod[a, b][2]

(***************************************************************************)
(* Strings.                                                                *)
(***************************************************************************)
Str == Seq(STRING)

\* Bytes a character takes in UTF-8; "é" stands for every character
\* outside ASCII a file name can hold.
Utf8Len(c) == IF c = "é" THEN 2 ELSE 1

\* String::len: the length in bytes.
StrLen[s \in Str] == IF s = <<>> THEN 0 ELSE Utf8Len(s[1]) + StrLen[Tail(s)]

\* str::starts_with(".")
StartsWithDot(s) == s # <<>> /\ s[1] = "."

\* String::push(' ') repeated n times.
PushSpaces[s \in Str, n \in Int] ==
    IF n <= 0 THEN s ELSE PushSpaces[Append(s, " "), n - 1]

DigitChar(d) == <<"0", "1", "2", "3", "4", "5", "6", "7", "8", "9">>[d + 1]

\* The three decimal digits of one base-1000 digit.
Digits3(v) == <<DigitChar(v \div 100), DigitChar((v \div 10) % 10), DigitChar(v % 10)>>

StripZeros[s \in Str] ==
    IF Len(s) > 1 /\ s[1] = "0" THEN StripZeros[Tail(s)] ELSE s

BigDigits[a \in Big] ==
    IF a = <<>> THEN <<>> ELSE BigDigits[Tail(a)] \o Digits3(a[1])

\* format!("{}", n) for an unsigned integer: decimal, no leading zeros.
FmtU64(a) == IF a = <<>> THEN <<"0">> ELSE StripZeros[BigDigits[a]]

(***************************************************************************)
(* Path::size_string_formatter                                             *)
(***************************************************************************)
KYLOBYTE == <<0, 1>>

MEGABYTE == BigMulSmall(1000, KYLOBYTE)

GIGABYTE == BigMulSmall(1000, MEGABYTE)

TERABYTE == BigMulSmall(1000, GIGABYTE)

\* size_string_formatter with <= for < in the comparisons.
size_string_formatter_le(size) ==
    IF size = <<>> THEN <<"-">>
    ELSE IF BigLe(size, KYLOBYTE) THEN FmtU64(size) \o <<"B">>
    ELSE IF BigLe(size, MEGABYTE) THEN FmtU64(BigDiv(size, KYLOBYTE)) \o <<"K", "B">>
    ELSE IF BigLe(size, GIGABYTE) THEN FmtU64(BigDiv(size, MEGABYTE)) \o <<"M", "B">>
    ELSE IF BigLe(size, TERABYTE) THEN FmtU64(BigDiv(size, GIGABYTE)) \o <<"G", "B">>
    ELSE FmtU64(BigDiv(size, TERABYTE)) \o <<"T", "B">>

size_string_formatter(size) ==
    IF size = <<>> THEN <<"-">>
    ELSE IF BigLt(size, KYLOBYTE) THEN FmtU64(size) \o <<"B">>
    ELSE IF BigLt(size, MEGABYTE) THEN FmtU64(BigDiv(size, KYLOBYTE)) \o <<"K", "B">>
    ELSE IF BigLt(size, GIGABYTE) THEN FmtU64(BigDiv(size, MEGABYTE)) \o <<"M", "B">>
    ELSE IF BigLt(size, TERABYTE) THEN FmtU64(BigDiv(size, GIGABYTE)) \o <<"G", "B">>
    ELSE FmtU64(BigDiv(size, TERABYTE)) \o <<"T", "B">>

(***************************************************************************)
(* Path::set_time                                                          *)
(*                                                                         *)
(* A SystemTime is [before, secs, ms]: its distance from UNIX_EPOCH in     *)
(* whole seconds (multi-digit) and milliseconds, and whether it lies       *)
(* before the epoch.  The part below a millisecond is left out: as_millis  *)
(* discards it.                                                            *)
(***************************************************************************)
TwoTo63 == <<808, 775, 854, 36, 372, 223, 9>>

TwoTo64 == <<616, 551, 709, 73, 744, 446, 18>>

I32_MAX == 2147483647

MIN_YEAR == -262144

MAX_YEAR == 262143

\* as_millis with the seconds taken for the milliseconds (as_secs).
as_secs(d) == d.secs

\* Duration::as_millis: secs * 1000 + subsec_millis, a u128 (cannot overflow).
as_millis(d) == BigAdd(BigMulSmall(1000, d.secs), BigFromInt[d.ms])

\* `x as i64` for a u128 x: the low 64 bits, read as two's complement.
U128AsI64[x \in Big] ==
    LET low == BigMod(x, TwoTo64)
    IN  IF BigLt(low, TwoTo63)
        THEN [neg |-> FALSE, mag |-> low]
        ELSE [neg |-> TRUE, mag |-> BigSub(TwoTo64, low)]

I64 == [neg : BOOLEAN, mag : Big]

\* i64::div_euclid / rem_euclid (chrono's div_mod_floor) by a positive d:
\* [q |-> signed quotient, r |-> remainder in 0 .. d-1].
DivModFloor[x \in I64, d \in Big] ==
    LET q0 == BigDiv(x.mag, d)
        r0 == BigMod(x.mag, d)
    IN  IF ~x.neg THEN [q |-> [neg |-> FALSE, mag |-> q0], r |-> r0]
        ELSE IF r0 = <<>> THEN [q |-> [neg |-> q0 # <<>>, mag |-> q0], r |-> <<>>]
        ELSE [q |-> [neg |-> TRUE, mag |-> BigAdd(q0, <<1>>)], r |-> BigSub(d, r0)]

\* chrono internals::YEAR_DELTAS: leap days of the 400-year cycle before year y.
YearDelta(y) ==
    IF y = 0 THEN 0
    ELSE ((y - 1) \div 4) - ((y - 1) \div 100) + ((y - 1) \div 400) + 1

\* chrono internals::cycle_to_yo: day of the 400-year cycle to
\* <<year mod 400, ordinal (1-based day of the year)>>.
cycle_to_yo(cycle) ==
    LET ym    == cycle \div 365
        ord0  == cycle % 365
        delta == YearDelta(ym)
    IN  IF ord0 < delta
        THEN <<ym - 1, ord0 + 365 - YearDelta(ym - 1) + 1>>
        ELSE <<ym, ord0 - delta + 1>>

IsLeap(ym) == ym % 4 = 0 /\ (ym % 100 # 0 \/ ym % 400 = 0)

MonthLen(leap, m) ==
    IF m = 2 THEN (IF leap THEN 29 ELSE 28)
    ELSE IF m \in {4, 6, 9, 11} THEN 30 ELSE 31

\* Ordinal (day of the year) to <<month, day>>.
OrdinalToMd[leap \in BOOLEAN, ordinal \in Nat, m \in Nat] ==
    IF ordinal <= MonthLen(leap, m) THEN <<m, ordinal>>
    ELSE OrdinalToMd[leap, ordinal - MonthLen(leap, m), m + 1]

None == [some |-> FALSE, year |-> 0, month |-> 0, day |-> 0, hour |-> 0, minute |-> 0]

\* NaiveDate::from_num_days_from_ce_opt, for days counted from 0001-01-01 = 1.
from_num_days_from_ce_opt[days \in Int, sod \in Nat] ==
    IF days > I32_MAX - 365 THEN None
    ELSE LET d    == days + 365
             yd   == d \div 146097
             yo   == cycle_to_yo(d % 146097)
             year == yd * 400 + yo[1]
             md   == OrdinalToMd[IsLeap(yo[1]), yo[2], 1]
         IN  IF year < MIN_YEAR \/ year > MAX_YEAR THEN None
             ELSE [some |-> TRUE, year |-> year, month |-> md[1], day |-> md[2],
                   hour |-> sod \div 3600, minute |-> (sod \div 60) % 60]

\* NaiveDateTime::from_timestamp_opt(secs, nsecs): days = secs div 86400
\* (floor), which must fit an i32 also after adding 719163 (the days from
\* 0001-01-01 to 1970-01-01).
from_timestamp_opt[secs \in I64] ==
    LET dm == DivModFloor[secs, <<400, 86>>]
    IN  IF BigLt(BigFromInt[I32_MAX], dm.q.mag) THEN None
        ELSE LET days == IF dm.q.neg THEN 0 - BigToInt[dm.q.mag] ELSE BigToInt[dm.q.mag]
             IN  IF days > I32_MAX - 719163 THEN None
                 ELSE from_num_days_from_ce_opt[days + 719163, BigToInt[dm.r]]

\* NaiveDateTime::from_timestamp_millis(millis): secs = millis.div_euclid(1000).
from_timestamp_millis[millis \in I64] == from_timestamp_opt[DivModFloor[millis, <<0, 1>>].q]

MonthAbbr(m) ==
    << <<"J", "a", "n">>, <<"F", "e", "b">>, <<"M", "a", "r">>, <<"A", "p", "r">>,
       <<"M", "a", "y">>, <<"J", "u", "n">>, <<"J", "u", "l">>, <<"A", "u", "g">>,
       <<"S", "e", "p">>, <<"O", "c", "t">>, <<"N", "o", "v">>, <<"D", "e", "c">> >>[m]

\* Two-digit field: padded with `pad` on the left.
Fmt2(v, pad) ==
    <<IF v < 10 THEN pad ELSE DigitChar(v \div 10), DigitChar(v % 10)>>

\* NaiveDateTime::format("%e %b %R"): day of the month padded with a space,
\* abbreviated month name, hour:minute padded with zeros.
FormatTime(t) ==
    Fmt2(t.day, " ") \o <<" ">> \o MonthAbbr(t.month) \o <<" ">>
        \o Fmt2(t.hour, "0") \o <<":">> \o Fmt2(t.minute, "0")

Ok(v) == [kind |-> "Ok", val |-> v, msg |-> ""]

Panic(m) == [kind |-> "Panic", val |-> <<>>, msg |-> m]

\* Result<String, Error> of set_time, or the panic that ends the process.
set_time(sys_time) ==
    IF sys_time.before THEN Panic("Time must gone backwards!")
    ELSE LET time == from_timestamp_millis[U128AsI64[as_millis(sys_time)]]
         IN  IF time.some THEN Ok(FormatTime(time))
             ELSE Panic("Could not get time from milliseconds")

(***************************************************************************)
(* Path: construction and printing                                         *)
(***************************************************************************)
\* Path::new for a DirEntry [file_name, is_dir, len, modified] whose
\* metadata and name can be read: the Path built, or the panic of the
\* unwrap of set_time's result.
Path_new(entry) ==
    LET t == set_time(entry.modified)
    IN  IF t.kind = "Ok"
        THEN [kind |-> "Ok", msg |-> "",
              path |-> [file_name |-> entry.file_name,
                        is_dir    |-> entry.is_dir,
                        size      |-> size_string_formatter(entry.len),
                        time      |-> t.val]]
        ELSE [kind |-> "Panic", msg |-> t.msg,
              path |-> [file_name |-> <<>>, is_dir |-> FALSE, size |-> <<>>, time |-> <<>>]]

LineT ==
    [file_name : Str, size : Str, time : Str, text : Str,
     name_color : STRING, size_color : STRING, time_color : STRING]

\* Path::print: the line written, with the style of each of its three fields.
Path_print(path) ==
    [file_name  |-> path.file_name,
     size       |-> path.size,
     time       |-> path.time,
     text       |-> path.file_name \o <<" ">> \o path.size \o <<" ">> \o path.time,
     name_color |-> IF path.is_dir THEN "blue" ELSE "white",
     size_color |-> IF path.is_dir THEN "white" ELSE "yellow",
     time_color |-> "bright_cyan"]

(***************************************************************************)
(* Paths                                                                   *)
(***************************************************************************)
PathT == [file_name : Str, is_dir : BOOLEAN, size : Str, time : Str]

\* The loop of get_biggest_str_len from path i on; acc is
\* (start_len_name, start_size_len).
BiggestLoop[ps \in Seq(PathT), i \in Nat, acc \in Nat \X Nat] ==
    IF i > Len(ps) THEN acc
    ELSE BiggestLoop[ps, i + 1,
            <<IF StrLen[ps[i].file_name] > acc[1] THEN StrLen[ps[i].file_name] ELSE acc[1],
              IF StrLen[ps[i].size] > acc[2] THEN StrLen[ps[i].size] ELSE acc[2]>>]

\* Paths::get_biggest_str_len: <<longest file_name, longest size>>, in bytes.
get_biggest_str_len(ps) == BiggestLoop[ps, 1, <<0, 0>>]

\* Indentate without the extra space (0..spaces_to_add).
IndentateExact(path, biggest) ==
    [path EXCEPT
        !.file_name = PushSpaces[@, biggest[1] - StrLen[@]],
        !.size      = PushSpaces[@, biggest[2] - StrLen[@]]]

\* s with n spaces put before it.
SpacesBefore[s \in Str, n \in Int] ==
    IF n <= 0 THEN s ELSE SpacesBefore[<<" ">> \o s, n - 1]

\* Indentate with the spaces put before the text (right alignment).
IndentateLeft(path, biggest) ==
    [path EXCEPT
        !.file_name = SpacesBefore[@, (biggest[1] - StrLen[@]) + 1],
        !.size      = SpacesBefore[@, (biggest[2] - StrLen[@]) + 1]]

\* One path of indentate_paths' loop: spaces_to_add + 1 spaces pushed to
\* file_name and to size.
Indentate(path, biggest) ==
    [path EXCEPT
        !.file_name = PushSpaces[@, (biggest[1] - StrLen[@]) + 1],
        !.size      = PushSpaces[@, (biggest[2] - StrLen[@]) + 1]]

IndentateAll[ps \in Seq(PathT), biggest \in Nat \X Nat] ==
    [i \in 1..Len(ps) |-> Indentate(ps[i], biggest)]

\* Paths::indentate_paths: the list with every file_name and size padded.
indentate_paths(ps) == IndentateAll[ps, get_biggest_str_len(ps)]

\* Emits without the flag: hidden paths are skipped always.
EmitsNoFlag(show_all, path) == ~StartsWithDot(path.file_name)

\* The test of Paths::print's loop: the path is printed, not skipped.
Emits(show_all, path) == ~(~show_all /\ StartsWithDot(path.file_name))

\* The loop of Paths::print from path i on; lines are the lines written so far.
PrintLoop[show_all \in BOOLEAN, ps \in Seq(PathT), i \in Nat, lines \in Seq(LineT)] ==
    IF i > Len(ps) THEN lines
    ELSE PrintLoop[show_all, ps, i + 1,
            IF Emits(show_all, ps[i]) THEN Append(lines, Path_print(ps[i])) ELSE lines]

\* The paths of ps from i on that the loop does not skip.
Shown[show_all \in BOOLEAN, ps \in Seq(PathT), i \in Nat] ==
    IF i > Len(ps) THEN <<>>
    ELSE (IF Emits(show_all, ps[i]) THEN <<ps[i]>> ELSE <<>>) \o Shown[show_all, ps, i + 1]

\* Paths::print with the hidden paths dropped before the padding.
Paths_print_filter_first(show_all, ps) ==
    PrintLoop[TRUE, indentate_paths(Shown[show_all, ps, 1]), 1, <<>>]

\* Paths::print: the lines written for the list ps under the flag `all`.
Paths_print(show_all, ps) == PrintLoop[show_all, indentate_paths(ps), 1, <<>>]

\* setup_args with the tree reset when no tree is given.
setup_args_reset(old_tree, a, l, t) ==
    <<a, l, IF t.some THEN <<TRUE, t.val>> ELSE <<FALSE, "">>>>

\* Paths::setup_args: the new <<all, long, tree>>.
setup_args(old_tree, a, l, t) ==
    <<a, l, IF t.some THEN <<TRUE, t.val>> ELSE old_tree>>

(***************************************************************************)
(* The inputs.                                                             *)
(***************************************************************************)
MaxPaths == 2

MaxPads == 2

At(n, ms) == [before |-> FALSE, secs |-> BigFromInt[n], ms |-> ms]

\* The directory entries a listing is collected from.
DirEntries ==
    { [file_name |-> <<".", "g", "i", "t">>, is_dir |-> TRUE,
       len |-> <<96, 4>>, modified |-> At(1675111074, 521)],
      [file_name |-> <<"a", "b">>, is_dir |-> FALSE,
       len |-> <<495>>, modified |-> At(68169600, 0)],
      [file_name |-> <<"é">>, is_dir |-> FALSE,
       len |-> <<>>, modified |-> At(0, 0)],
      [file_name |-> <<".", "é", "h">>, is_dir |-> FALSE,
       len |-> <<0, 0, 0, 0, 1>>, modified |-> At(951868799, 999)],
      [file_name |-> <<"o", "l", "d">>, is_dir |-> FALSE,
       len |-> <<999>>, modified |-> [before |-> TRUE, secs |-> <<1>>, ms |-> 0]] }

NoTree == [some |-> FALSE, val |-> ""]

TreeArgs == {NoTree, [some |-> TRUE, val |-> "dir"], [some |-> TRUE, val |-> "src"]}

NoCall == [fn |-> "none", arg |-> <<>>, done |-> FALSE, ret |-> <<>>]

\* The sizes size_string_formatter is applied to: every value with up to
\* five base-1000 digits drawn from 0, 1 and 999 (so every threshold, its
\* predecessor and its successor), the values of the module's tests, a
\* value past 1000 TB, and u64::MAX.
Sizes ==
    { BigNorm[<<a, b, c, d, e>>] : a \in {0, 1, 999}, b \in {0, 1, 999}, c \in {0, 1, 999},
                                   d \in {0, 1, 999}, e \in {0, 1, 999} }
    \cup { <<495>>, <<942, 392, 299>>, <<52, 804, 504, 380, 293>>,
            <<0, 0, 0, 0, 0, 1>>, <<615, 551, 709, 73, 744, 446, 18>> }

\* Days since the epoch and seconds of the day the times are built from:
\* the epoch, the ends of February in common, leap and century years, year
\* ends, the day of the module's test, the last day before 2^31 seconds.
TimeDays == {0, 58, 59, 365, 789, 790, 10956, 10957, 11016, 11017, 19387, 19722, 24854}

TimeSecs == {0, 59, 60, 3599, 3600, 74274, 86399}

\* The times set_time is applied to: the above with and without a
\* millisecond part, times before the epoch, and times past 2^31 seconds:
\* 10^10 s, the last and the first second chrono can and cannot represent
\* (year 262143), 2^63 - 1 s, and a time whose milliseconds exceed 2^64.
Times ==
    { At(d * 86400 + sec, ms) : d \in TimeDays, sec \in TimeSecs, ms \in {0, 521} }
    \cup { [before |-> TRUE, secs |-> <<1>>, ms |-> 0],
            [before |-> TRUE, secs |-> <<74, 111, 675, 1>>, ms |-> 521],
            [before |-> FALSE, secs |-> <<0, 0, 0, 10>>, ms |-> 0],
            [before |-> FALSE, secs |-> <<799, 412, 298, 210, 8>>, ms |-> 999],
            [before |-> FALSE, secs |-> <<800, 412, 298, 210, 8>>, ms |-> 0],
            [before |-> FALSE, secs |-> <<36, 372, 223, 9>>, ms |-> 0],
            [before |-> FALSE, secs |-> <<807, 775, 854, 36, 372, 223, 9>>, ms |-> 0],
            [before |-> FALSE, secs |-> <<626, 820, 748, 745, 446, 18>>, ms |-> 137] }

(***************************************************************************)
(* The listing: Paths::default(), entries collected into `paths`, the      *)
(* flags set, the list padded and printed.  Path::new is a function of the *)
(* entry alone: built holds its result for every entry of the directory,   *)
(* computed once.  orig, pre, post, pads and lastArgs record the history:  *)
(* the paths as built, the list before and after the latest                *)
(* indentate_paths, the number of indentate_paths calls, and the arguments *)
(* of the latest setup_args call.                                          *)
(***************************************************************************)
\* Paths::default(), nothing printed yet.
Default ==
    /\ paths = <<>>
    /\ all = FALSE
    /\ long = FALSE
    /\ tree = <<FALSE, "">>
    /\ status = "live"
    /\ out = <<>>
    /\ orig = <<>>
    /\ pre = <<>>
    /\ post = <<>>
    /\ pads = 0
    /\ lastArgs = [called |-> FALSE, all |-> FALSE, long |-> FALSE, tree |-> NoTree]

Init ==
    /\ Default
    /\ built = [entry \in DirEntries |-> Path_new(entry)]
    /\ call = NoCall

\* paths.push(Path::new(entry)): a panic in Path::new ends the process.
Collect(entry) ==
    /\ status = "live"
    /\ Len(paths) < MaxPaths
    /\ LET r == built[entry]
       IN  IF r.kind = "Ok"
           THEN /\ paths' = Append(paths, r.path)
                /\ orig' = Append(orig, r.path)
                /\ status' = status
           ELSE /\ status' = "panicked"
                /\ UNCHANGED <<paths, orig>>
    /\ UNCHANGED <<all, long, tree, out, built, pre, post, pads, lastArgs, call>>

SetupArgs(a, l, t) ==
    /\ status = "live"
    /\ LET new == setup_args(tree, a, l, t)
       IN  /\ all' = new[1]
           /\ long' = new[2]
           /\ tree' = new[3]
    /\ lastArgs' = [called |-> TRUE, all |-> a, long |-> l, tree |-> t]
    /\ UNCHANGED <<paths, status, out, built, orig, pre, post, pads, call>>

\* indentate_paths called on its own, as the module's tests call it.
IndentatePaths ==
    /\ status = "live"
    /\ pads < MaxPads
    /\ paths' = indentate_paths(paths)
    /\ pre' = paths
    /\ post' = paths'
    /\ pads' = pads + 1
    /\ UNCHANGED <<all, long, tree, status, out, built, orig, lastArgs, call>>

\* Paths::print(mut self): pads, writes the lines, and the value is gone.
PrintListing ==
    /\ status = "live"
    /\ out' = Paths_print(all, paths)
    /\ pre' = paths
    /\ post' = indentate_paths(paths)
    /\ pads' = pads + 1
    /\ paths' = <<>>
    /\ status' = "consumed"
    /\ UNCHANGED <<all, long, tree, built, orig, lastArgs, call>>

Next ==
    \/ \E entry \in DirEntries : Collect(entry)
    \/ \E a \in BOOLEAN, l \in BOOLEAN, t \in TreeArgs : SetupArgs(a, l, t)
    \/ IndentatePaths
    \/ PrintListing

Spec == Init /\ [][Next]_vars

(***************************************************************************)
(* The two formatters on their own: call holds the function, its argument  *)
(* and, once the call is done, its result.                                 *)
(***************************************************************************)
InitSize ==
    /\ Default
    /\ built = <<>>
    /\ call \in { [fn |-> "size_string_formatter", arg |-> s, done |-> FALSE, ret |-> <<>>] :
                  s \in Sizes }

SizeStringFormatter ==
    /\ call.fn = "size_string_formatter"
    /\ ~call.done
    /\ call' = [call EXCEPT !.done = TRUE, !.ret = size_string_formatter(call.arg)]
    /\ UNCHANGED listing

SpecSize == InitSize /\ [][SizeStringFormatter]_vars

InitTime ==
    /\ Default
    /\ built = <<>>
    /\ call \in { [fn |-> "set_time", arg |-> t, done |-> FALSE, ret |-> <<>>] : t \in Times }

SetTime ==
    /\ call.fn = "set_time"
    /\ ~call.done
    /\ call' = [call EXCEPT !.done = TRUE, !.ret = set_time(call.arg)]
    /\ UNCHANGED listing

SpecTime == InitTime /\ [][SetTime]_vars

(***************************************************************************)
(* Properties of size_string_formatter (under SpecSize).                   *)
(***************************************************************************)
IsDigit(c) == c \in {"0", "1", "2", "3", "4", "5", "6", "7", "8", "9"}

DigitVal(c) == CHOOSE d \in 0..9 : DigitChar(d) = c

\* The number a string of decimal digits denotes.
ParseDec[s \in Str] ==
    IF s = <<>> THEN <<>>
    ELSE BigAdd(BigMulSmall(10, ParseDec[SubSeq(s, 1, Len(s) - 1)]),
                BigFromInt[DigitVal(s[Len(s)])])

\* 1000^k.
Pow1000(k) == [i \in 1..(k + 1) |-> IF i = k + 1 THEN 1 ELSE 0]

\* q * 1000^k.
TimesPow1000(q, k) == IF q = <<>> THEN <<>> ELSE [i \in 1..k |-> 0] \o q

\* r is "<s div 1000^k><suffix>": the digits before the suffix are a decimal
\* number q without leading zeros, with q * 1000^k <= s < (q + 1) * 1000^k.
IsQuotientWithSuffix(r, s, k, suffix) ==
    /\ Len(r) > Len(suffix)
    /\ SubSeq(r, Len(r) - Len(suffix) + 1, Len(r)) = suffix
    /\ LET digits == SubSeq(r, 1, Len(r) - Len(suffix))
       IN  /\ \A i \in 1..Len(digits) : IsDigit(digits[i])
           /\ digits[1] # "0"
           /\ BigLe(TimesPow1000(ParseDec[digits], k), s)
           /\ BigLt(s, TimesPow1000(BigAdd(ParseDec[digits], <<1>>), k))

SizeStringOf(s, r) ==
    IF s = <<>> THEN r = <<"-">>
    ELSE IF BigLt(s, Pow1000(1)) THEN IsQuotientWithSuffix(r, s, 0, <<"B">>)
    ELSE IF BigLt(s, Pow1000(2)) THEN IsQuotientWithSuffix(r, s, 1, <<"K", "B">>)
    ELSE IF BigLt(s, Pow1000(3)) THEN IsQuotientWithSuffix(r, s, 2, <<"M", "B">>)
    ELSE IF BigLt(s, Pow1000(4)) THEN IsQuotientWithSuffix(r, s, 3, <<"G", "B">>)
    ELSE IsQuotientWithSuffix(r, s, 4, <<"T", "B">>)

SizeDone == call.fn = "size_string_formatter" /\ call.done

\* C1: size_string_formatter(s) is "-" for 0, "<s>B" below 1000, and
\* "<s div 1000^k>" followed by KB, MB, GB, TB for k = 1, 2, 3, 4, the unit
\* chosen by the exact thresholds 1000^k, the division truncating; so 1000
\* gives "1KB" and 10^12 gives "1TB".
C1_SizeFormat ==
    SizeDone =>
        /\ SizeStringOf(call.arg, call.ret)
        /\ (call.arg = <<0, 1>> => call.ret = <<"1", "K", "B">>)
        /\ (call.arg = <<0, 0, 0, 0, 1>> => call.ret = <<"1", "T", "B">>)

C1_Witness ==
    /\ SizeDone
    /\ call.arg = <<999, 999, 999, 999>>
    /\ call.ret = <<"9", "9", "9", "G", "B">>

(***************************************************************************)
(* Properties of set_time (under SpecTime).                                *)
(***************************************************************************)
TimeDone == call.fn = "set_time" /\ call.done

\* The last second chrono's NaiveDateTime represents: 262143-12-31 23:59:59.
LastSecond == <<799, 412, 298, 210, 8>>

Representable(t) == ~t.before /\ BigLe(t.secs, LastSecond)

\* Days from 1970-01-01 to the civil date y-m-d (proleptic Gregorian).
DaysFromCivil(y, m, d) ==
    LET yy  == IF m <= 2 THEN y - 1 ELSE y
        era == yy \div 400
        yoe == yy - era * 400
        doy == ((153 * (IF m > 2 THEN m - 3 ELSE m + 9) + 2) \div 5) + d - 1
        doe == yoe * 365 + (yoe \div 4) - (yoe \div 100) + doy
    IN  era * 146097 + doe - 719468

LeapYear(y) == y % 4 = 0 /\ (y % 100 # 0 \/ y % 400 = 0)

DaysIn(y, m) ==
    IF m = 2 THEN (IF LeapYear(y) THEN 29 ELSE 28)
    ELSE IF m \in {4, 6, 9, 11} THEN 30 ELSE 31

\* The years of the times in Times.
Years == (1970..2038) \cup {2262, 2286, 262143}

MonthNames ==
    << <<"J", "a", "n">>, <<"F", "e", "b">>, <<"M", "a", "r">>, <<"A", "p", "r">>,
       <<"M", "a", "y">>, <<"J", "u", "n">>, <<"J", "u", "l">>, <<"A", "u", "g">>,
       <<"S", "e", "p">>, <<"O", "c", "t">>, <<"N", "o", "v">>, <<"D", "e", "c">> >>

TwoDigits(a, b) == 10 * DigitVal(a) + DigitVal(b)

\* r is "<day> <month> <hour>:<minute>" of the minute the time t (at or
\* after the epoch) lies in, in UTC: the day of the month takes two places
\* (a space before a single digit), the month is its English three-letter
\* name, hour and minute are two digits each.
TimeStringOf(t, r) ==
    /\ Len(r) = 12
    /\ r[3] = " " /\ r[7] = " " /\ r[10] = ":"
    /\ r[1] = " " \/ (IsDigit(r[1]) /\ r[1] # "0")
    /\ \A i \in {2, 8, 9, 11, 12} : IsDigit(r[i])
    /\ \E m \in 1..12 : MonthNames[m] = SubSeq(r, 4, 6)
    /\ LET day    == IF r[1] = " " THEN DigitVal(r[2]) ELSE TwoDigits(r[1], r[2])
           month  == CHOOSE m \in 1..12 : MonthNames[m] = SubSeq(r, 4, 6)
           hour   == TwoDigits(r[8], r[9])
           minute == TwoDigits(r[11], r[12])
       IN  /\ hour <= 23 /\ minute <= 59 /\ day >= 1
           /\ \E y \in Years :
                /\ day <= DaysIn(y, month)
                /\ DaysFromCivil(y, month, day) >= 0
                /\ LET start == BigAdd(BigMulSmall(86400, BigFromInt[DaysFromCivil(y, month, day)]),
                                       BigFromInt[hour * 3600 + minute * 60])
                   IN  /\ BigLe(start, t.secs)
                       /\ BigLt(t.secs, BigAdd(start, <<60>>))

TestTime == [before |-> FALSE, secs |-> <<74, 111, 675, 1>>, ms |-> 521]

\* C7: for a time at or after the epoch that chrono represents, set_time
\* returns Ok with the UTC day, abbreviated month, hour and minute of the
\* time (seconds and below discarded); 1,675,111,074,521 ms gives
\* "30 Jan 20:37".
C7_TimeFormat ==
    (TimeDone /\ Representable(call.arg)) =>
        /\ call.ret.kind = "Ok"
        /\ TimeStringOf(call.arg, call.ret.val)
        /\ (call.arg = TestTime =>
                call.ret.val = <<"3", "0", " ", "J", "a", "n", " ", "2", "0", ":", "3", "7">>)

C7_Witness ==
    /\ TimeDone
    /\ call.arg = At(11016 * 86400 + 86399, 521)
    /\ call.ret = Ok(<<"2", "9", " ", "F", "e", "b", " ", "2", "3", ":", "5", "9">>)

\* C5: when the time lies before the epoch or cannot be represented as
\* calendar time, set_time fails with an error value returned to the caller
\* (the process goes on).
C5_ErrorReturned ==
    (TimeDone /\ ~Representable(call.arg)) => call.ret.kind = "Err"

(***************************************************************************)
(* Properties of the listing (under Spec).                                 *)
(***************************************************************************)
MaxOf(S) == IF S = {} THEN 0 ELSE CHOOSE m \in S : \A x \in S : x <= m

\* The longest file_name and the longest size of a list, in bytes.
MaxNameLen(ps) == MaxOf({StrLen[ps[i].file_name] : i \in 1..Len(ps)})

MaxSizeLen(ps) == MaxOf({StrLen[ps[i].size] : i \in 1..Len(ps)})

\* t is s followed by spaces only, at least one.
IsPadded(s, t) ==
    /\ Len(t) > Len(s)
    /\ SubSeq(t, 1, Len(s)) = s
    /\ \A i \in (Len(s) + 1)..Len(t) : t[i] = " "

\* C2: after indentate_paths on a non-empty list every file_name is
\* max_name_len + 1 bytes long and every size max_size_len + 1 bytes long,
\* the maxima taken before the padding; so the names are equally long, the
\* sizes are equally long, and each ends with a space.
C2_PaddingConverges ==
    (pads > 0 /\ Len(pre) > 0) =>
        \A i \in 1..Len(post) :
            /\ StrLen[post[i].file_name] = MaxNameLen(pre) + 1
            /\ StrLen[post[i].size] = MaxSizeLen(pre) + 1
            /\ post[i].file_name[Len(post[i].file_name)] = " "
            /\ post[i].size[Len(post[i].size)] = " "
            /\ \A j \in 1..Len(post) :
                /\ StrLen[post[i].file_name] = StrLen[post[j].file_name]
                /\ StrLen[post[i].size] = StrLen[post[j].size]

C2_Witness ==
    /\ pads > 0
    /\ Len(pre) = 2
    /\ StrLen[pre[1].file_name] < StrLen[pre[2].file_name]
    /\ StrLen[pre[1].size] > StrLen[pre[2].size]
    /\ StrLen[post[1].file_name] = StrLen[pre[2].file_name] + 1

\* The positions of the paths as built that are retained: all of them when
\* show_all holds, else those whose name as built does not begin with ".".
RetainedFrom[show_all \in BOOLEAN, ps \in Seq(PathT), i \in Nat] ==
    IF i > Len(ps) THEN <<>>
    ELSE (IF show_all \/ ps[i].file_name = <<>> \/ ps[i].file_name[1] # "."
          THEN <<i>> ELSE <<>>) \o RetainedFrom[show_all, ps, i + 1]

Retained == RetainedFrom[all, orig, 1]

Consumed == status = "consumed"

\* C3: Paths::print writes one line per retained path, in the order the
\* paths were pushed; a path is retained iff `all` holds or its name as
\* built does not begin with "."; no line is written for an empty list or
\* for a list of hidden paths only.
C3_OneLinePerRetained ==
    Consumed =>
        /\ Len(out) = Len(Retained)
        /\ \A k \in 1..Len(out) :
            /\ IsPadded(orig[Retained[k]].file_name, out[k].file_name)
            /\ IsPadded(orig[Retained[k]].size, out[k].size)
            /\ out[k].time = orig[Retained[k]].time
        /\ (Len(orig) = 0 => out = <<>>)
        /\ ((~all /\ \A i \in 1..Len(orig) : orig[i].file_name[1] = ".") => out = <<>>)

C3_Witness ==
    /\ Consumed
    /\ ~all
    /\ Len(orig) = 2
    /\ orig[1].file_name[1] = "."
    /\ orig[2].file_name[1] # "."
    /\ Len(out) = 1
    /\ IsPadded(orig[2].file_name, out[1].file_name)

\* C4: the lines written have the widths of the whole list, hidden paths
\* included, whatever `all` is: every line's file_name and size are those
\* of a path of the list handed to print, padded to the longest file_name
\* and size of that whole list plus one; `all` only decides which lines
\* are written.
C4_WidthsIgnoreFilter ==
    Consumed =>
        /\ Len(out) = Len(Retained)
        /\ \A k \in 1..Len(out) :
            /\ IsPadded(pre[Retained[k]].file_name, out[k].file_name)
            /\ StrLen[out[k].file_name] = MaxNameLen(pre) + 1
            /\ IsPadded(pre[Retained[k]].size, out[k].size)
            /\ StrLen[out[k].size] = MaxSizeLen(pre) + 1

C4_Witness ==
    /\ Consumed
    /\ ~all
    /\ Len(pre) = 2
    /\ pre[1].file_name = <<".", "g", "i", "t">>
    /\ pre[2].file_name = <<"a", "b">>
    /\ Len(out) = 1
    /\ out[1].file_name = <<"a", "b", " ", " ", " ">>
    /\ out[1].size = <<"4", "9", "5", "B", " ">>

C8_SetupArgs ==
    [][lastArgs' # lastArgs =>
        /\ all' = lastArgs'.all
        /\ long' = lastArgs'.long
        /\ tree' = IF lastArgs'.tree.some THEN <<TRUE, lastArgs'.tree.val>> ELSE tree
        /\ paths' = paths]_vars

C8_Witness ==
    /\ lastArgs.called
    /\ ~lastArgs.tree.some
    /\ lastArgs.all
    /\ ~lastArgs.long
    /\ tree = <<TRUE, "src">>
    /\ Len(paths) > 0

\* C9: after the padding all file_names have the same number of characters
\* and all sizes have the same number of characters, also when a name holds
\* characters of more than one byte.
C9_EqualCharWidth ==
    pads > 0 =>
        \A i \in 1..Len(post), j \in 1..Len(post) :
            /\ Len(post[i].file_name) = Len(post[j].file_name)
            /\ Len(post[i].size) = Len(post[j].size)

\* C10: indentate_paths only appends spaces: the file_name and size before
\* it are prefixes of those after it, the rest being spaces, so the first
\* character is kept; time, is_dir, the number of paths and their order are
\* unchanged.
C10_OnlyTrailingSpaces ==
    pads > 0 =>
        /\ Len(post) = Len(pre)
        /\ \A i \in 1..Len(pre) :
            /\ IsPadded(pre[i].file_name, post[i].file_name)
            /\ IsPadded(pre[i].size, post[i].size)
            /\ post[i].file_name[1] = pre[i].file_name[1]
            /\ post[i].time = pre[i].time
            /\ post[i].is_dir = pre[i].is_dir

C10_Witness ==
    /\ pads > 0
    /\ Len(pre) = 2
    /\ pre[1].file_name = <<"é">>
    /\ pre[2].file_name = <<".", "g", "i", "t">>
    /\ post[1].file_name = <<"é", " ", " ", " ">>
    /\ post[2].is_dir

====
